---- MODULE Spec2Model ----
(***************************************************************************)
(* Model of langchain/routing_chains/mrkl/base.py: the MRKL output parser  *)
(* get_action_and_input, the prompt renderings built by                    *)
(* ZeroShotRouter.from_llm_and_tools / MRKLChain.from_chains, and the      *)
(* routing loop that drives the parser (RoutingChain, given by the     *)
(* specification, section 4.4; its code is not part of base.py).          *)
(*                                                                         *)
(* A Python str is modelled as a sequence of one-character strings.        *)
(***************************************************************************)
EXTENDS Integers, Sequences, FiniteSets, TLC

VARIABLES
    \* ---- parser (get_action_and_input) ----
    parts,          \* ghost: the lines the LLM text was composed from
    llm_output,     \* the text handed to get_action_and_input
    result,         \* what the call returned or raised
    pc,             \* "ready" | "done" | "idle"
    \* ---- construction (from_chains / from_tools_and_llm) ----
    chains,         \* the List[ChainConfig] given to from_chains
    tools,          \* the List[Tool] built from it
    tool_strings,   \* rendered catalog of the router being built
    tool_names,     \* rendered names of the router being built
    built,          \* log of the routers constructed so far
    cpc,            \* "start" | "tools" | "idle"
    \* ---- routing loop (specification 4.4) ----
    state,          \* "Running" | "Finished" | "Failed" | "idle"
    transcript,     \* append-only sequence of transcript entries
    iterationCount,
    maxIterations,  \* configured maximum iteration count
    policy,         \* unknown-tool policy: "fail" | "observe"
    onlyActions,    \* ghost: every step so far was an Action for a registered
                    \* tool whose invocation returned
    lastRaw,        \* raw text of the latest completion
    output,         \* final answer carried by Finished
    cause,          \* error cause carried by Failed
    invocations,    \* number of tool invocations performed
    decides         \* number of Router.decide calls performed

parserVars == <<parts, llm_output, result, pc>>
buildVars  == <<chains, tools, tool_strings, tool_names, built, cpc>>
loopVars   == <<state, transcript, iterationCount, maxIterations, policy,
                onlyActions, lastRaw, output, cause, invocations, decides>>
vars == <<parserVars, buildVars, loopVars>>

-----------------------------------------------------------------------------
(* Bounds of the model *)

MaxBody == 3
MaxLead == 1
MaxTools == 2
MaxBuilds == 2
MaxIter == 3

-----------------------------------------------------------------------------
(* Python str operations used by base.py *)

NL == "\n"
SP == " "
DQ == "\""

\* s.startswith(p)
StartsWith(s, p) == Len(s) >= Len(p) /\ SubSeq(s, 1, Len(p)) = p

\* s[n:] : a slice past the end is the empty string, never an error
SliceFrom(s, n) == IF n >= Len(s) THEN <<>> ELSE SubSeq(s, n + 1, Len(s))

\* s.split(sep) for a one-character sep: always at least one piece
RECURSIVE SplitAcc(_, _, _, _)
SplitAcc(s, sep, cur, acc) ==
    IF s = <<>> THEN Append(acc, cur)
    ELSE IF Head(s) = sep THEN SplitAcc(Tail(s), sep, <<>>, Append(acc, cur))
    ELSE SplitAcc(Tail(s), sep, Append(cur, Head(s)), acc)

Split(s, sep) == SplitAcc(s, sep, <<>>, <<>>)

\* s.strip(c) for a one-character c: every leading and trailing c goes
RECURSIVE LStrip(_, _)
LStrip(s, c) == IF s # <<>> /\ Head(s) = c THEN LStrip(Tail(s), c) ELSE s

RECURSIVE RStrip(_, _)
RStrip(s, c) ==
    IF s # <<>> /\ s[Len(s)] = c THEN RStrip(SubSeq(s, 1, Len(s) - 1), c) ELSE s

Strip(s, c) == RStrip(LStrip(s, c), c)

\* sep.join(items)
RECURSIVE Join(_, _)
Join(items, sep) ==
    IF items = <<>> THEN <<>>
    ELSE IF Len(items) = 1 THEN items[1]
    ELSE items[1] \o sep \o Join(Tail(items), sep)

-----------------------------------------------------------------------------
(* String literals of base.py *)

FINAL_ANSWER_ACTION_NoSpace ==
    <<"F","i","n","a","l"," ","A","n","s","w","e","r",":">>

FINAL_ANSWER_ACTION ==
    <<"F","i","n","a","l"," ","A","n","s","w","e","r",":"," ">>

FinalAnswerCheck_Strict ==
    <<"F","i","n","a","l"," ","A","n","s","w","e","r",":"," ">>

\* the literal tested by startswith on line 32
FinalAnswerCheck == <<"F","i","n","a","l"," ","A","n","s","w","e","r">>

FinalAnswerName_Constant ==
    <<"F","i","n","a","l"," ","A","n","s","w","e","r",":"," ">>

\* the literal returned as the action on line 34
FinalAnswerName == <<"F","i","n","a","l"," ","A","n","s","w","e","r">>

ActionInputPrefix ==
    <<"A","c","t","i","o","n"," ","I","n","p","u","t",":"," ">>

ActionPrefix == <<"A","c","t","i","o","n",":"," ">>

-----------------------------------------------------------------------------
(* get_action_and_input *)

Returned(a, i)  == [kind |-> "return", msg |-> "", action |-> a, input |-> i]
Raised(k, m)    == [kind |-> k, msg |-> m, action |-> <<>>, input |-> <<>>]

NoActionInputMsg == "The last line does not have an action input"
NoActionMsg      == "The second to last line does not have an action"

IndexError == Raised("IndexError", "list index out of range")

\* ps = [p for p in llm_output.split("\n") if p]
NonEmptyLines(text) == SelectSeq(Split(text, NL), LAMBDA p : p # <<>>)

get_action_and_input_ActionFirst(text) ==
    LET ps == NonEmptyLines(text)
        n  == Len(ps)
    IN  IF n = 0 THEN IndexError
        ELSE IF StartsWith(ps[n], FinalAnswerCheck)
        THEN Returned(FinalAnswerName, SliceFrom(ps[n], Len(FINAL_ANSWER_ACTION)))
        ELSE IF n < 2 THEN IndexError
        ELSE IF ~StartsWith(ps[n - 1], ActionPrefix)
        THEN Raised("ValueError", NoActionMsg)
        ELSE IF ~StartsWith(ps[n], ActionInputPrefix)
        THEN Raised("ValueError", NoActionInputMsg)
        ELSE Returned(SliceFrom(ps[n - 1], Len(ActionPrefix)),
                      Strip(Strip(SliceFrom(ps[n], Len(ActionInputPrefix)), SP), DQ))

get_action_and_input(text) ==
    LET ps == NonEmptyLines(text)
        n  == Len(ps)
    IN  \* ps[-1] on an empty list
        IF n = 0 THEN IndexError
        ELSE IF StartsWith(ps[n], FinalAnswerCheck)
        THEN Returned(FinalAnswerName, SliceFrom(ps[n], Len(FINAL_ANSWER_ACTION)))
        ELSE IF ~StartsWith(ps[n], ActionInputPrefix)
        THEN Raised("ValueError", NoActionInputMsg)
        \* ps[-2] on a one-element list
        ELSE IF n < 2 THEN IndexError
        ELSE IF ~StartsWith(ps[n - 1], ActionPrefix)
        THEN Raised("ValueError", NoActionMsg)
        ELSE Returned(SliceFrom(ps[n - 1], Len(ActionPrefix)),
                      Strip(Strip(SliceFrom(ps[n], Len(ActionInputPrefix)), SP), DQ))

\* ZeroShotRouter._extract_tool_and_input
extract_tool_and_input(text) == get_action_and_input(text)

-----------------------------------------------------------------------------
(* LLM outputs the parser is run on *)

BodyChars == {"x", DQ, SP}

RECURSIVE Strings(_, _)
Strings(alphabet, n) ==
    IF n = 0 THEN {<<>>}
    ELSE LET shorter == Strings(alphabet, n - 1)
         IN  shorter \cup {Append(s, c) : s \in shorter, c \in alphabet}

\* the texts "Final Answer" and "Final Answer: " as an LLM writes them
WrittenFinalAnswer == <<"F","i","n","a","l"," ","A","n","s","w","e","r">>
WrittenFinalAnswerColon == WrittenFinalAnswer \o <<":", " ">>

LinePrefixes ==
    {<<>>, WrittenFinalAnswer, WrittenFinalAnswerColon, ActionInputPrefix,
     ActionPrefix}

LastLines == {p \o b : p \in LinePrefixes, b \in Strings(BodyChars, MaxBody)}

PrevBodies == {<<>>, <<"T">>, <<SP, "T">>, <<DQ, "T">>}
PrevLines  == {p \o b : p \in LinePrefixes, b \in PrevBodies}

LeadLines == {<<"h", "m">>, ActionPrefix \o <<"T">>}

RECURSIVE Leads(_)
Leads(n) ==
    IF n = 0 THEN {<<>>}
    ELSE LET shorter == Leads(n - 1)
         IN  shorter \cup {Append(s, l) : s \in shorter, l \in LeadLines}

PartLists ==
    {<<l>> : l \in LastLines}
      \cup {ld \o <<p, l>> : ld \in Leads(MaxLead), p \in PrevLines, l \in LastLines}

-----------------------------------------------------------------------------
(* Parser specification *)

IdleBuild ==
    /\ chains = <<>> /\ tools = <<>> /\ tool_strings = <<>> /\ tool_names = <<>>
    /\ built = <<>> /\ cpc = "idle"

IdleLoop ==
    /\ state = "idle" /\ transcript = <<>> /\ iterationCount = 0
    /\ maxIterations = 0 /\ policy = "fail" /\ onlyActions = TRUE /\ lastRaw = <<>>
    /\ output = <<>> /\ cause = "" /\ invocations = 0 /\ decides = 0

IdleParser ==
    /\ parts = <<>> /\ llm_output = <<>> /\ result = Raised("none", "") /\ pc = "idle"

Init ==
    /\ parts \in PartLists
    /\ llm_output = Join(parts, <<NL>>)
    /\ result = Raised("none", "")
    /\ pc = "ready"
    /\ IdleBuild
    /\ IdleLoop

Parse ==
    /\ pc = "ready"
    /\ result' = extract_tool_and_input(llm_output)
    /\ pc' = "done"
    /\ UNCHANGED <<parts, llm_output, buildVars, loopVars>>

Next == Parse

Spec == Init /\ [][Next]_vars

-----------------------------------------------------------------------------
(* Properties of the parser *)

\* the non-empty lines the text was composed from, its last and the one before
NE     == SelectSeq(parts, LAMBDA p : p # <<>>)
LastNE == NE[Len(NE)]
PrevNE == NE[Len(NE) - 1]

Parsed == pc = "done"

\* what is left of line s once its first Len(p) characters are removed
TextAfter(s, p) ==
    IF Len(s) <= Len(p) THEN <<>> ELSE SubSeq(s, Len(p) + 1, Len(s))

\* C1: whenever the last non-empty line is "Final Answer: X", whatever and
\* however many lines precede it, the call returns ("Final Answer", X) with X
\* exactly the text after the prefix, and raises nothing.
C1_FinalAnswerReturned ==
    (Parsed /\ NE # <<>> /\ StartsWith(LastNE, WrittenFinalAnswerColon))
        => LET X == TextAfter(LastNE, WrittenFinalAnswerColon)
           IN  /\ LastNE = WrittenFinalAnswerColon \o X
               /\ result = Returned(WrittenFinalAnswer, X)

C1_Witness ==
    /\ Parsed
    /\ Len(NE) = 3
    /\ LastNE = WrittenFinalAnswerColon \o <<"x", SP, "x">>
    /\ ~StartsWith(PrevNE, ActionPrefix)
    /\ ~StartsWith(PrevNE, ActionInputPrefix)
    /\ result = Returned(WrittenFinalAnswer, <<"x", SP, "x">>)

\* C2: when the last two non-empty lines are "Action: T" and
\* "Action Input: "X"" the call returns (T, X): T untrimmed, and X with exactly
\* one layer of surrounding double quotes removed, so an X that itself begins
\* or ends with a double quote keeps it.
C2_ActionParsedOneLayer ==
    (Parsed /\ Len(NE) >= 2 /\ StartsWith(PrevNE, ActionPrefix)
            /\ StartsWith(LastNE, ActionInputPrefix \o <<DQ>>))
        => LET T == TextAfter(PrevNE, ActionPrefix)
               q == TextAfter(LastNE, ActionInputPrefix)
           IN  (Len(q) >= 2 /\ q[Len(q)] = DQ)
                  => result = Returned(T, SubSeq(q, 2, Len(q) - 1))

C4_SingleLineMissingAction ==
    (Parsed /\ Len(NE) = 1 /\ ~StartsWith(LastNE, WrittenFinalAnswer))
        => result = Raised("ValueError", NoActionMsg)

\* C5: a text with no non-empty line fails with the parser's own error (the
\* ValueError the other malformed outputs raise), not with an index error.
C5_EmptyOutputOwnError ==
    (Parsed /\ NE = <<>>) => result.kind = "ValueError"

\* one layer of double quotes, removed only when present on both ends
OneLayerUnquoted(s) ==
    IF Len(s) >= 2 /\ s[1] = DQ /\ s[Len(s)] = DQ
    THEN SubSeq(s, 2, Len(s) - 1)
    ELSE s

\* C6: the tool input is the text after "Action Input: " with leading and
\* trailing spaces stripped and then one double quote removed from each end
\* only when both ends carry one: a quote on a single end and inner quote
\* layers are kept. (A text that is one lone quote may go either way.)
C6_InputOneLayerBothEnds ==
    (Parsed /\ Len(NE) >= 2 /\ StartsWith(PrevNE, ActionPrefix)
            /\ StartsWith(LastNE, ActionInputPrefix))
        => LET s == Strip(TextAfter(LastNE, ActionInputPrefix), SP)
           IN  /\ result.kind = "return"
               /\ \/ result.input = OneLayerUnquoted(s)
                  \/ s = <<DQ>> /\ result.input = <<>>

\* C10: a last non-empty line that starts with the 12 characters
\* "Final Answer" is returned as a final answer whose text is the line without
\* its first 14 characters (empty when the line is shorter), colon and space
\* or not; it is never rejected as malformed.
C10_LoosePrefixFixedCut ==
    (Parsed /\ NE # <<>> /\ StartsWith(LastNE, WrittenFinalAnswer))
        => /\ result.kind = "return"
           /\ result.action = WrittenFinalAnswer
           /\ Len(result.input) = (IF Len(LastNE) > 14 THEN Len(LastNE) - 14 ELSE 0)
           /\ \A i \in 1..Len(result.input) : result.input[i] = LastNE[14 + i]

C10_Witness ==
    /\ Parsed
    /\ NE # <<>>
    /\ LastNE = WrittenFinalAnswer \o <<"x", SP, "x">>
    /\ result = Returned(WrittenFinalAnswer, <<"x">>)

-----------------------------------------------------------------------------
(* Construction: MRKLChain.from_chains, MRKLChain.from_tools_and_llm and      *)
(* ZeroShotRouter.from_llm_and_tools                                          *)

ChainConfig(n, f, d) == [action_name |-> n, action |-> f, action_description |-> d]
Tool(n, f, d)        == [name |-> n, func |-> f, description |-> d]

\* f"{tool.name}: {tool.description}"
ToolLine(tool) == tool.name \o <<":", SP>> \o tool.description

ToolStrings_Reversed(ts) ==
    Join([i \in 1..Len(ts) |-> ToolLine(ts[Len(ts) + 1 - i])], <<NL>>)

\* tool_strings = "\n".join([f"{tool.name}: {tool.description}" for tool in tools])
ToolStrings(ts) == Join([i \in 1..Len(ts) |-> ToolLine(ts[i])], <<NL>>)

\* tool_names = ", ".join([tool.name for tool in tools])
ToolNames(ts) == Join([i \in 1..Len(ts) |-> ts[i].name], <<",", SP>>)

\* tools = [Tool(name=c.action_name, func=c.action, description=...) for c in chains]
ToolsOfChains(cs) ==
    [i \in 1..Len(cs) |->
        Tool(cs[i].action_name, cs[i].action, cs[i].action_description)]

\* what from_llm_and_tools puts into the router's prompt
Router(ts) ==
    [tools |-> ts, tool_strings |-> ToolStrings(ts), tool_names |-> ToolNames(ts)]

\* the configurations a caller may pass
ConfigPool ==
    { ChainConfig(<<"S">>, "search", <<"u", "s", "e">>),
      ChainConfig(<<"a", ",", SP, "b">>, "other", <<"m", NL, "n">>) }

RECURSIVE Lists(_, _)
Lists(pool, n) ==
    IF n = 0 THEN {<<>>}
    ELSE LET shorter == Lists(pool, n - 1)
         IN  shorter \cup {Append(l, c) : l \in shorter, c \in pool}

ChainLists == Lists(ConfigPool, MaxTools)

InitBuild ==
    /\ chains = <<>> /\ tools = <<>> /\ tool_strings = <<>> /\ tool_names = <<>>
    /\ built = <<>>
    /\ cpc = "start"
    /\ IdleParser
    /\ IdleLoop

\* MRKLChain.from_chains(llm, chains): builds the tools, then the chain
FromChains(cs) ==
    /\ cpc = "start"
    /\ Len(built) < MaxBuilds
    /\ chains' = cs
    /\ tools' = ToolsOfChains(cs)
    /\ tool_strings' = Router(tools').tool_strings
    /\ tool_names' = Router(tools').tool_names
    /\ built' = Append(built, Router(tools'))
    /\ UNCHANGED <<cpc, parserVars, loopVars>>

\* MRKLChain.from_tools_and_llm(tools, llm): the tools are given directly
FromToolsAndLlm(ts) ==
    /\ cpc = "start"
    /\ Len(built) < MaxBuilds
    /\ tools' = ts
    /\ tool_strings' = Router(ts).tool_strings
    /\ tool_names' = Router(ts).tool_names
    /\ built' = Append(built, Router(ts))
    /\ UNCHANGED <<chains, cpc, parserVars, loopVars>>

NextBuild ==
    \/ \E cs \in ChainLists : FromChains(cs)
    \/ \E cs \in ChainLists : FromToolsAndLlm(ToolsOfChains(cs))

SpecBuild == InitBuild /\ [][NextBuild]_vars

(* Properties of the renderings *)

RECURSIVE SumLen(_, _, _)
SumLen(items, k, sepLen) ==
    IF k = 0 THEN 0 ELSE SumLen(items, k - 1, sepLen) + Len(items[k]) + sepLen

\* text is exactly the items in their order, each followed by sep but the last
RendersInOrder(text, items, sep) ==
    /\ Len(text) = (IF items = <<>> THEN 0
                    ELSE SumLen(items, Len(items), Len(sep)) - Len(sep))
    /\ \A i \in 1..Len(items) :
          LET start == SumLen(items, i - 1, Len(sep))
          IN  /\ \A k \in 1..Len(items[i]) : text[start + k] = items[i][k]
              /\ i < Len(items)
                   => \A k \in 1..Len(sep) : text[start + Len(items[i]) + k] = sep[k]

\* the pieces of text at the places where items of these lengths would sit
PiecesAt(text, items, sep) ==
    [i \in 1..Len(items) |->
        LET start == SumLen(items, i - 1, Len(sep))
        IN  [k \in 1..Len(items[i]) |-> text[start + k]]]

Occurrences(seq, x) == Cardinality({i \in 1..Len(seq) : seq[i] = x})

SameContent(a, b) ==
    /\ Len(a) = Len(b)
    /\ \A i \in 1..Len(a) : Occurrences(a, a[i]) = Occurrences(b, a[i])

WrittenLine(tool) == tool.name \o <<":", SP>> \o tool.description
WrittenLines(ts)  == [i \in 1..Len(ts) |-> WrittenLine(ts[i])]
WrittenNames(ts)  == [i \in 1..Len(ts) |-> ts[i].name]

\* C7: for every tool list the catalog is its "name: description" lines joined
\* by a newline and the names text is its names joined by ", ", both in the
\* list's order; two renderings of one list are the same text, and the
\* rendering of a permutation holds the same lines and names in another order.
C7_RenderingsOrderStable ==
    /\ \A i \in 1..Len(built) :
          /\ RendersInOrder(built[i].tool_strings, WrittenLines(built[i].tools), <<NL>>)
          /\ RendersInOrder(built[i].tool_names, WrittenNames(built[i].tools),
                            <<",", SP>>)
    /\ \A i, j \in 1..Len(built) :
          /\ built[i].tools = built[j].tools
                => /\ built[i].tool_strings = built[j].tool_strings
                   /\ built[i].tool_names = built[j].tool_names
          /\ SameContent(built[i].tools, built[j].tools)
                => /\ SameContent(
                        PiecesAt(built[i].tool_strings, WrittenLines(built[i].tools), <<NL>>),
                        PiecesAt(built[j].tool_strings, WrittenLines(built[j].tools), <<NL>>))
                   /\ SameContent(
                        PiecesAt(built[i].tool_names, WrittenNames(built[i].tools),
                                 <<",", SP>>),
                        PiecesAt(built[j].tool_names, WrittenNames(built[j].tools),
                                 <<",", SP>>))

C7_Witness ==
    /\ Len(built) = 2
    /\ Len(built[1].tools) = 2
    /\ built[1].tools[1] # built[1].tools[2]
    /\ built[2].tools = <<built[1].tools[2], built[1].tools[1]>>
    /\ built[1].tool_strings # built[2].tool_strings
    /\ chains = <<>>

-----------------------------------------------------------------------------
(* Routing loop (specification 4.3, 4.4, 5, 7), driving the parser above    *)

\* ZeroShotRouter.observation_prefix
observation_prefix ==
    <<"O","b","s","e","r","v","a","t","i","o","n",":"," ">>

\* the registry the loop runs with: Search and Calculator of scenario 1
Registry ==
    ToolsOfChains(<<ChainConfig(<<"S">>, "search", <<"u", "s", "e">>),
                    ChainConfig(<<"C", "a">>, "calc", <<>>)>>)

\* the tool name by which the loop recognises a Finish directive
finish_tool_name == <<"F","i","n","a","l"," ","A","n","s","w","e","r">>

\* ToolRegistry.lookup by exact name
Registered(name) == \E i \in 1..Len(Registry) : Registry[i].name = name

\* the texts the completion service may answer with, as the lines they hold
ScriptParts ==
    { <<<<"h", "m">>, ActionPrefix \o <<"S">>, ActionInputPrefix \o <<DQ, "q", DQ>>>>,
      <<ActionPrefix \o <<"C", "a">>, ActionInputPrefix \o <<"1">>>>,
      <<ActionPrefix \o <<"U">>, ActionInputPrefix \o <<DQ, "x", DQ>>>>,
      <<<<"h", "m">>, WrittenFinalAnswerColon \o <<"P">>>>,
      <<WrittenFinalAnswerColon \o <<"4", SP, "2">>, <<>>>>,
      <<<<"h", "m">>>>,
      <<<<>>>> }

RawOutputs == {Join(ps, <<NL>>) : ps \in ScriptParts}

\* what a tool's invoke gives back: a string, or a failure
ToolOutcomes == {"returns", "fails"}
ToolResult == <<"o", "k">>
UnknownToolNote == <<"u", "n", "k", "n", "o", "w", "n">>

ModelOutput(text) == [entry |-> "ModelOutput", text |-> text]
Observation(text) == [entry |-> "Observation", text |-> observation_prefix \o text]

InitLoop ==
    /\ state = "Running"
    /\ transcript = <<>>
    /\ iterationCount = 0
    /\ maxIterations \in 1..MaxIter
    /\ policy \in {"fail", "observe"}
    /\ onlyActions = TRUE
    /\ lastRaw = <<>>
    /\ output = <<>>
    /\ cause = ""
    /\ invocations = 0
    /\ decides = 0
    /\ IdleParser
    /\ IdleBuild

Fail(why) ==
    /\ state' = "Failed"
    /\ cause' = why
    /\ onlyActions' = FALSE
    /\ UNCHANGED <<transcript, iterationCount, output>>

\* steps 3c and 3d: append the model text and the observation, count, check
AppendAndCount(raw, obs) ==
    /\ transcript' = transcript \o <<ModelOutput(raw), Observation(obs)>>
    /\ iterationCount' = iterationCount + 1
    /\ IF iterationCount' > maxIterations
       THEN state' = "Failed" /\ cause' = "IterationLimitExceeded"
       ELSE UNCHANGED <<state, cause>>
    /\ UNCHANGED output

\* one iteration: Router.decide (completion, then the parser) and its outcome
Iterate(raw, outcome) ==
    /\ state = "Running"
    /\ decides' = decides + 1
    /\ lastRaw' = raw
    /\ LET d == extract_tool_and_input(raw)
       IN  IF d.kind # "return"
           THEN Fail("MalformedDirective") /\ UNCHANGED invocations
           ELSE IF d.action = finish_tool_name
           THEN /\ state' = "Finished"
                /\ output' = d.input
                /\ onlyActions' = FALSE
                /\ UNCHANGED <<transcript, iterationCount, cause, invocations>>
           ELSE IF ~Registered(d.action)
           THEN IF policy = "fail"
                THEN Fail("UnknownTool") /\ UNCHANGED invocations
                ELSE /\ AppendAndCount(raw, UnknownToolNote)
                     /\ onlyActions' = FALSE
                     /\ UNCHANGED invocations
           ELSE /\ invocations' = invocations + 1
                /\ IF outcome = "fails"
                   THEN Fail("ToolInvocationError")
                   ELSE AppendAndCount(raw, ToolResult) /\ UNCHANGED onlyActions
    /\ UNCHANGED <<maxIterations, policy, parserVars, buildVars>>

\* the completion service fails inside Router.decide: fatal, not retried
CompletionFails ==
    /\ state = "Running"
    /\ decides' = decides + 1
    /\ Fail("CompletionServiceError")
    /\ UNCHANGED <<lastRaw, invocations, maxIterations, policy, parserVars, buildVars>>

\* cooperative cancellation, checked between iterations
Cancel ==
    /\ state = "Running"
    /\ Fail("Cancelled")
    /\ UNCHANGED <<lastRaw, invocations, decides, maxIterations, policy,
                   parserVars, buildVars>>

NextLoop ==
    \/ \E raw \in RawOutputs, outcome \in ToolOutcomes : Iterate(raw, outcome)
    \/ CompletionFails
    \/ Cancel

SpecLoop == InitLoop /\ [][NextLoop]_vars

(* Properties of the loop *)

\* C8: while every decision is a well-formed Action for a registered tool, a
\* loop configured with maxIterations = N fails with IterationLimitExceeded
\* after exactly N tool invocations: it is Running below N invocations, Failed
\* at N, and never performs invocation N + 1.
C8_LimitAfterExactlyN ==
    /\ invocations <= maxIterations
    /\ cause = "IterationLimitExceeded" => invocations = maxIterations
    /\ (onlyActions /\ invocations < maxIterations) => state = "Running"
    /\ (onlyActions /\ invocations = maxIterations)
          => state = "Failed" /\ cause = "IterationLimitExceeded"

LastWritten(ps) ==
    LET ne == SelectSeq(ps, LAMBDA p : p # <<>>) IN ne[Len(ne)]

\* the completions whose last non-empty line is "Final Answer: X"
FinishParts ==
    {ps \in ScriptParts :
        /\ SelectSeq(ps, LAMBDA p : p # <<>>) # <<>>
        /\ StartsWith(LastWritten(ps), WrittenFinalAnswerColon)}

\* C9: Finished and Failed are absorbing. A completion that ends in
\* "Final Answer: X" takes a Running loop to Finished with output X and leaves
\* the transcript as it was; once the loop is Finished or Failed no step
\* changes anything: no decide call, tool invocation, append or state change.
C9_TerminalAbsorbing ==
    [][ /\ state \in {"Finished", "Failed"} => UNCHANGED vars
        /\ \A ps \in FinishParts :
             (state = "Running" /\ decides' = decides + 1
                 /\ lastRaw' = Join(ps, <<NL>>) /\ cause' # "CompletionServiceError")
               => /\ state' = "Finished"
                  /\ output' = TextAfter(LastWritten(ps), WrittenFinalAnswerColon)
                  /\ transcript' = transcript
                  /\ invocations' = invocations
        /\ state' = "Finished" => (state = "Running" /\ transcript' = transcript)
      ]_vars

C9_Witness ==
    /\ state = "Finished"
    /\ output = <<"4", SP, "2">>
    /\ Len(transcript) = 4
    /\ decides = 3
    /\ invocations = 2

====
